---- MODULE Spec2Model ----
(***************************************************************************)
(* Model of the Valo.Rant web service (src/server.js): the register/login  *)
(* handlers over the users collection, the post/reply handlers over the    *)
(* posts collection and the patch handlers over the patches collection.    *)
(*                                                                         *)
(* JavaScript values are sequences of integers.  A string is the sequence  *)
(* of its character codes (ASCII only, so that the UTF-8 bytes of a string *)
(* are its character codes).  The non-string values a JSON body can carry  *)
(* that the handlers distinguish are one-element sequences holding a       *)
(* negative code, which no string contains.                                *)
(*                                                                         *)
(* A store call is atomic on its collection.  A handler that makes one     *)
(* store call is one action, taken when the store executes the call; the   *)
(* handlers run concurrently, so the clock value such a handler has read   *)
(* is any value up to the clock of that moment.  The register handler      *)
(* makes two store calls and is two actions, with the users it is about to *)
(* insert in pending between them.  resp is the last response sent.  Store *)
(* calls succeed: the 500 answers of the catch blocks are not modelled.    *)
(***************************************************************************)
EXTENDS Integers, Sequences, FiniteSets, TLC

VARIABLES usersCollection, postsCollection, patchesCollection,
          pending, clock, resp

vars == <<usersCollection, postsCollection, patchesCollection, pending, clock, resp>>

store == <<usersCollection, postsCollection, patchesCollection>>

(***************************************************************************)
(* Bounds of the model.                                                    *)
(***************************************************************************)
MaxUsers == 2
MaxPostDocs == 3
MaxPatches == 2
StartClock == 10
ClockSpan == 1
MaxAll == 1

(***************************************************************************)
(* JavaScript values.                                                      *)
(***************************************************************************)
Undefined == <<0 - 1>>
Null == <<0 - 2>>
JsFalse == <<0 - 3>>
JsTrue == <<0 - 4>>
NaN == 0 - 1

Truthy(v) == v \notin {Undefined, Null, JsFalse, <<>>}

\* a || b
OrElse(a, b) == IF Truthy(a) THEN a ELSE b

\* String literals of the source and of the requests, as character codes.
Str_access == <<97, 99, 99, 101, 115, 115>>
Str_secret1 == <<115, 101, 99, 114, 101, 116, 49>>
Str_abc == <<97, 98, 99>>
Str_Admin == <<65, 100, 109, 105, 110>>
Str_adminEmail == <<97, 100, 109, 105, 110, 64, 103, 109, 97, 105, 108, 46, 99, 111, 109>>
Str_userEmail == <<97, 64, 98, 46, 99>>
Str_noDot == <<97, 64, 98>>
Str_ab == <<97, 98>>
Str_bob == <<98, 111, 98>>
Str_amy == <<97, 109, 121>>
Str_Anonymous == <<65, 110, 111, 110, 121, 109, 111, 117, 115>>
Str_hello == <<104, 101, 108, 108, 111>>
Str_seedVersion == <<80, 97, 116, 99, 104, 32, 50, 46, 53, 46, 48>>
Str_seedDate == <<68, 101, 99>>
Str_seedText == <<78, 101, 119>>
Str_v2 == <<50, 46, 48>>
Str_d == <<100>>
Str_t == <<116>>
Str_1 == <<49>>
Str_x == <<120>>

(***************************************************************************)
(* Credential codec: Buffer.from(pwd).toString('base64') and back.  A      *)
(* base64 character is represented by its index 0..63 in the base64        *)
(* alphabet; the padding character '=' by 64.                              *)
(***************************************************************************)
Pad == 64

EncodeGroup(g) ==
    IF Len(g) = 3
    THEN << g[1] \div 4, (g[1] % 4) * 16 + (g[2] \div 16),
            (g[2] % 16) * 4 + (g[3] \div 64), g[3] % 64 >>
    ELSE IF Len(g) = 2
    THEN << g[1] \div 4, (g[1] % 4) * 16 + (g[2] \div 16), (g[2] % 16) * 4, Pad >>
    ELSE << g[1] \div 4, (g[1] % 4) * 16, Pad, Pad >>

RECURSIVE encodePassword(_)
encodePassword(pwd) ==
    IF Len(pwd) = 0 THEN <<>>
    ELSE IF Len(pwd) <= 3 THEN EncodeGroup(pwd)
    ELSE EncodeGroup(SubSeq(pwd, 1, 3)) \o encodePassword(SubSeq(pwd, 4, Len(pwd)))

DecodeGroup(q) ==
    IF q[3] = Pad
    THEN << q[1] * 4 + (q[2] \div 16) >>
    ELSE IF q[4] = Pad
    THEN << q[1] * 4 + (q[2] \div 16), (q[2] % 16) * 16 + (q[3] \div 4) >>
    ELSE << q[1] * 4 + (q[2] \div 16), (q[2] % 16) * 16 + (q[3] \div 4),
            (q[3] % 4) * 64 + q[4] >>

RECURSIVE decodePassword(_)
decodePassword(encoded) ==
    IF Len(encoded) < 4 THEN <<>>
    ELSE DecodeGroup(SubSeq(encoded, 1, 4)) \o decodePassword(SubSeq(encoded, 5, Len(encoded)))

ADMIN == [username |-> Str_Admin, email |-> Str_adminEmail,
          password |-> encodePassword(Str_access), isAdmin |-> TRUE]

(***************************************************************************)
(* /^[^\s@]+@[^\s@]+\.[^\s@]+$/.test(email)                                *)
(***************************************************************************)
IsPlainChar(c) == c \notin {64, 32, 9, 10, 11, 12, 13}

\* The pattern matches exactly when one character is '@', every other one
\* is neither white space nor '@', the '@' is not the first character, and
\* a '.' stands after the '@' with a character between them and a character
\* after it.
EmailOk(s) ==
    LET ats == {i \in 1..Len(s) : s[i] = 64}
    IN  /\ Cardinality(ats) = 1
        /\ \A k \in (1..Len(s)) \ ats : IsPlainChar(s[k])
        /\ \E i \in ats :
              /\ i > 1
              /\ \E j \in (i + 2)..(Len(s) - 1) : s[j] = 46

(***************************************************************************)
(* parseInt(req.params.id): leading white space is skipped, an optional    *)
(* sign and the longest run of decimal digits are read, NaN when there is  *)
(* no digit.                                                               *)
(***************************************************************************)
IsDigit(c) == c >= 48 /\ c <= 57

RECURSIVE ParseDigits(_, _, _)
ParseDigits(s, i, acc) ==
    IF i <= Len(s) /\ IsDigit(s[i])
    THEN ParseDigits(s, i + 1, acc * 10 + (s[i] - 48))
    ELSE acc

RECURSIVE SkipSpace(_, _)
SkipSpace(s, i) ==
    IF i <= Len(s) /\ s[i] \in {32, 9, 10, 11, 12, 13} THEN SkipSpace(s, i + 1) ELSE i

ParseIntOf(s) ==
    LET i == SkipSpace(s, 1)
        neg == i <= Len(s) /\ s[i] = 45
        j == IF i <= Len(s) /\ s[i] \in {43, 45} THEN i + 1 ELSE i
    IN  IF j <= Len(s) /\ IsDigit(s[j])
        THEN (IF neg THEN 0 - ParseDigits(s, j, 0) ELSE ParseDigits(s, j, 0))
        ELSE NaN

\* The decimal numeral of a positive integer, as a request path carries it.
RECURSIVE Numeral(_)
Numeral(n) == IF n < 10 THEN <<48 + n>> ELSE Numeral(n \div 10) \o <<48 + (n % 10)>>

\* The path parameters of the requests of the model: the numerals of the
\* clock values, the id of the seed patch and a parameter that is no number.
PostIds == {Numeral(t) : t \in StartClock..(StartClock + ClockSpan)} \cup {Str_x}
PatchIds == PostIds \cup {Str_1}

\* parseInt over the path parameters of the model, computed once.
ParsedIds == [s \in PatchIds |-> ParseIntOf(s)]

parseInt(s) == ParsedIds[s]

(***************************************************************************)
(* Document store operations the handlers use.  A collection is the        *)
(* sequence of its documents in insertion order; findOne, updateOne,       *)
(* deleteOne and findOneAndUpdate act on the first document that matches.  *)
(***************************************************************************)
\* matching is the set of the indices of the documents the filter matches;
\* 0 when it matches none.
FirstIndex(matching) ==
    IF matching = {} THEN 0
    ELSE CHOOSE i \in matching : \A j \in matching : i <= j

RemoveAt(coll, i) == SubSeq(coll, 1, i - 1) \o SubSeq(coll, i + 1, Len(coll))

\* An update that sets the array to the new element instead of pushing it.
Push_replace(replies, reply) == <<reply>>

Push(replies, reply) == Append(replies, reply)

\* A removal of the first matching element only.
Pull_first(replies, id) ==
    IF \E k \in 1..Len(replies) : replies[k].id = id
    THEN LET k == CHOOSE k \in 1..Len(replies) :
                      replies[k].id = id /\ \A m \in 1..(k - 1) : replies[m].id # id
         IN  SubSeq(replies, 1, k - 1) \o SubSeq(replies, k + 1, Len(replies))
    ELSE replies

RECURSIVE Pull(_, _)
Pull(replies, id) ==
    IF Len(replies) = 0 THEN <<>>
    ELSE IF replies[1].id = id THEN Pull(Tail(replies), id)
    ELSE <<replies[1]>> \o Pull(Tail(replies), id)

Respond(op, status, error, body) ==
    [op |-> op, status |-> status, error |-> error, body |-> body]

(***************************************************************************)
(* POST /api/auth/register                                                 *)
(***************************************************************************)
\* The validation with the password comparison moved before the e-mail test.
RegisterValidation_reordered(username, email, password, confirm) ==
    IF ~Truthy(username) \/ ~Truthy(email) \/ ~Truthy(password) \/ ~Truthy(confirm)
    THEN "Please fill in all fields"
    ELSE IF Len(username) < 3
    THEN "Username must be at least 3 characters long"
    ELSE IF password # confirm
    THEN "Passwords do not match"
    ELSE IF ~EmailOk(email)
    THEN "Please enter a valid email address"
    ELSE IF Len(password) < 6
    THEN "Password must be at least 6 characters long"
    ELSE ""

RegisterValidation(username, email, password, confirm) ==
    IF ~Truthy(username) \/ ~Truthy(email) \/ ~Truthy(password) \/ ~Truthy(confirm)
    THEN "Please fill in all fields"
    ELSE IF Len(username) < 3
    THEN "Username must be at least 3 characters long"
    ELSE IF ~EmailOk(email)
    THEN "Please enter a valid email address"
    ELSE IF password # confirm
    THEN "Passwords do not match"
    ELSE IF Len(password) < 6
    THEN "Password must be at least 6 characters long"
    ELSE ""

ExistingUser(username, email) ==
    FirstIndex({i \in 1..Len(usersCollection) :
                   \/ usersCollection[i].email = email
                   \/ usersCollection[i].username = username})

\* A registration that stores the user as an administrator.
NewUser_admin(username, email, password) ==
    [username |-> username, email |-> email, password |-> encodePassword(password),
     isAdmin |-> TRUE]

NewUser(username, email, password) ==
    [username |-> username, email |-> email, password |-> encodePassword(password),
     isAdmin |-> FALSE]

\* The handler up to its second await: the validation, the findOne and, when
\* no user matches, the construction of newUser whose insertOne is then
\* outstanding.
Register(username, email, password, confirm) ==
    LET error == RegisterValidation(username, email, password, confirm)
    IN  /\ UNCHANGED <<usersCollection, postsCollection, patchesCollection, clock>>
        /\ IF error # ""
           THEN /\ resp' = Respond("register", 400, error, <<>>)
                /\ UNCHANGED pending
           ELSE IF ExistingUser(username, email) # 0
           THEN /\ resp' = Respond("register", 400,
                                   "This email or username is already registered", <<>>)
                /\ UNCHANGED pending
           ELSE /\ pending' = Append(pending, NewUser(username, email, password))
                /\ UNCHANGED resp

\* The store executes an outstanding insertOne and the handler answers 201.
RegisterInsert(i) ==
    /\ i \in 1..Len(pending)
    /\ usersCollection' = Append(usersCollection, pending[i])
    /\ pending' = RemoveAt(pending, i)
    /\ resp' = Respond("register", 201, "",
                       [username |-> pending[i].username, email |-> pending[i].email])
    /\ UNCHANGED <<postsCollection, patchesCollection, clock>>

(***************************************************************************)
(* POST /api/auth/login                                                    *)
(***************************************************************************)
Login(email, password) ==
    LET i == FirstIndex({k \in 1..Len(usersCollection) : usersCollection[k].email = email})
    IN  /\ UNCHANGED <<usersCollection, postsCollection, patchesCollection, pending, clock>>
        /\ IF ~Truthy(email) \/ ~Truthy(password)
           THEN resp' = Respond("login", 400, "Please fill in all fields", <<>>)
           ELSE IF email = ADMIN.email /\ encodePassword(password) = ADMIN.password
           THEN resp' = Respond("login", 200, "",
                                [username |-> ADMIN.username, email |-> ADMIN.email,
                                 isAdmin |-> TRUE])
           ELSE IF i # 0 /\ decodePassword(usersCollection[i].password) = password
           THEN resp' = Respond("login", 200, "",
                                [username |-> usersCollection[i].username,
                                 email |-> usersCollection[i].email,
                                 isAdmin |-> usersCollection[i].isAdmin \/ FALSE])
           ELSE resp' = Respond("login", 401, "Invalid email or password", <<>>)

(***************************************************************************)
(* Date.now() and new Date().toISOString().  A handler reads the clock     *)
(* when the request arrives and its store call is executed later, so the   *)
(* value t a handler has read is any value up to the clock at the time the *)
(* store executes the call.                                                *)
(***************************************************************************)
Tick ==
    /\ clock < StartClock + ClockSpan
    /\ clock' = clock + 1
    /\ UNCHANGED <<usersCollection, postsCollection, patchesCollection, pending, resp>>

ClockReads == StartClock..clock

(***************************************************************************)
(* POST /api/posts                                                         *)
(***************************************************************************)
\* Date.now() and new Date() of one handler run read the same clock value.
NewPost(t, author, content, image) ==
    [id |-> t, author |-> OrElse(author, Str_Anonymous), content |-> content,
     image |-> OrElse(image, Null), timestamp |-> t, replies |-> <<>>]

CreatePost(t, author, content, image) ==
    LET post == NewPost(t, author, content, image)
    IN  /\ UNCHANGED <<usersCollection, patchesCollection, pending, clock>>
        /\ IF ~Truthy(content)
           THEN /\ resp' = Respond("createPost", 400, "Post content is required", <<>>)
                /\ UNCHANGED postsCollection
           ELSE /\ resp' = Respond("createPost", 201, "", post)
                /\ postsCollection' = Append(postsCollection, post)

(***************************************************************************)
(* DELETE /api/posts/:id                                                   *)
(***************************************************************************)
DeletePost(id, isAdmin) ==
    LET i == FirstIndex({k \in 1..Len(postsCollection) : postsCollection[k].id = parseInt(id)})
    IN  /\ UNCHANGED <<usersCollection, patchesCollection, pending, clock>>
        /\ IF ~Truthy(isAdmin)
           THEN /\ resp' = Respond("deletePost", 403,
                                   "Only administrators can delete posts", <<>>)
                /\ UNCHANGED postsCollection
           ELSE IF i = 0
           THEN /\ resp' = Respond("deletePost", 404, "Post not found", <<>>)
                /\ UNCHANGED postsCollection
           ELSE /\ resp' = Respond("deletePost", 200, "", <<>>)
                /\ postsCollection' = RemoveAt(postsCollection, i)

(***************************************************************************)
(* POST /api/posts/:id/reply                                               *)
(***************************************************************************)
NewReply(t, author, content) ==
    [id |-> t, author |-> OrElse(author, Str_Anonymous), content |-> content, timestamp |-> t]

AddReply(t, id, author, content) ==
    LET reply == NewReply(t, author, content)
        i == FirstIndex({k \in 1..Len(postsCollection) : postsCollection[k].id = parseInt(id)})
    IN  /\ UNCHANGED <<usersCollection, patchesCollection, pending, clock>>
        /\ IF ~Truthy(content)
           THEN /\ resp' = Respond("addReply", 400, "Reply content is required", <<>>)
                /\ UNCHANGED postsCollection
           ELSE IF i = 0
           THEN /\ resp' = Respond("addReply", 404, "Post not found", <<>>)
                /\ UNCHANGED postsCollection
           ELSE /\ resp' = Respond("addReply", 201, "", reply)
                /\ postsCollection' =
                      [postsCollection EXCEPT ![i].replies = Push(@, reply)]

(***************************************************************************)
(* DELETE /api/posts/:postId/reply/:replyId                                *)
(***************************************************************************)
DeleteReply(postId, replyId, isAdmin) ==
    LET i == FirstIndex({k \in 1..Len(postsCollection) : postsCollection[k].id = parseInt(postId)})
    IN  /\ UNCHANGED <<usersCollection, patchesCollection, pending, clock>>
        /\ IF ~Truthy(isAdmin)
           THEN /\ resp' = Respond("deleteReply", 403,
                                   "Only administrators can delete replies", <<>>)
                /\ UNCHANGED postsCollection
           ELSE IF i = 0
           THEN /\ resp' = Respond("deleteReply", 404, "Post not found", <<>>)
                /\ UNCHANGED postsCollection
           ELSE /\ resp' = Respond("deleteReply", 200, "", <<>>)
                /\ postsCollection' =
                      [postsCollection EXCEPT ![i].replies = Pull(@, parseInt(replyId))]

(***************************************************************************)
(* POST /api/patches                                                       *)
(***************************************************************************)
\* The early returns of the handler: the status it answers before any store
\* call, 0 when it goes on to the insertOne.
\* The two early returns in the other order.
CreatePatchGate_fieldsFirst(version, date, text, isAdmin) ==
    IF ~Truthy(version) \/ ~Truthy(date) \/ ~Truthy(text) THEN 400
    ELSE IF ~Truthy(isAdmin) THEN 403
    ELSE 0

CreatePatchGate(version, date, text, isAdmin) ==
    IF ~Truthy(isAdmin) THEN 403
    ELSE IF ~Truthy(version) \/ ~Truthy(date) \/ ~Truthy(text) THEN 400
    ELSE 0

NewPatch(t, version, date, text) ==
    [id |-> t, version |-> version, date |-> date, text |-> text]

CreatePatch(t, version, date, text, isAdmin) ==
    LET patch == NewPatch(t, version, date, text)
        gate == CreatePatchGate(version, date, text, isAdmin)
    IN  /\ UNCHANGED <<usersCollection, postsCollection, pending, clock>>
        /\ IF gate = 403
           THEN /\ resp' = Respond("createPatch", 403,
                                   "Only administrators can create patches", <<>>)
                /\ UNCHANGED patchesCollection
           ELSE IF gate = 400
           THEN /\ resp' = Respond("createPatch", 400, "All fields are required", <<>>)
                /\ UNCHANGED patchesCollection
           ELSE /\ resp' = Respond("createPatch", 201, "", patch)
                /\ patchesCollection' = Append(patchesCollection, patch)

(***************************************************************************)
(* PUT /api/patches/:id.  updateFields holds the truthy fields only; $set  *)
(* writes them into the first patch with the id and the document after the *)
(* update is result.value.                                                 *)
(***************************************************************************)
\* An update that writes all three fields, supplied or not.
SetFields_all(patch, version, date, text) ==
    [id |-> patch.id, version |-> version, date |-> date, text |-> text]

SetFields(patch, version, date, text) ==
    [id |-> patch.id,
     version |-> IF Truthy(version) THEN version ELSE patch.version,
     date |-> IF Truthy(date) THEN date ELSE patch.date,
     text |-> IF Truthy(text) THEN text ELSE patch.text]

UpdatePatch(id, version, date, text, isAdmin) ==
    LET i == FirstIndex({k \in 1..Len(patchesCollection) : patchesCollection[k].id = parseInt(id)})
    IN  /\ UNCHANGED <<usersCollection, postsCollection, pending, clock>>
        /\ IF ~Truthy(isAdmin)
           THEN /\ resp' = Respond("updatePatch", 403,
                                   "Only administrators can edit patches", <<>>)
                /\ UNCHANGED patchesCollection
           ELSE IF i = 0
           THEN /\ resp' = Respond("updatePatch", 404, "Patch not found", <<>>)
                /\ UNCHANGED patchesCollection
           ELSE /\ resp' = Respond("updatePatch", 200, "",
                                   SetFields(patchesCollection[i], version, date, text))
                /\ patchesCollection' =
                      [patchesCollection EXCEPT ![i] = SetFields(@, version, date, text)]

(***************************************************************************)
(* DELETE /api/patches/:id                                                 *)
(***************************************************************************)
DeletePatch(id, isAdmin) ==
    LET i == FirstIndex({k \in 1..Len(patchesCollection) : patchesCollection[k].id = parseInt(id)})
    IN  /\ UNCHANGED <<usersCollection, postsCollection, pending, clock>>
        /\ IF ~Truthy(isAdmin)
           THEN /\ resp' = Respond("deletePatch", 403,
                                   "Only administrators can delete patches", <<>>)
                /\ UNCHANGED patchesCollection
           ELSE IF i = 0
           THEN /\ resp' = Respond("deletePatch", 404, "Patch not found", <<>>)
                /\ UNCHANGED patchesCollection
           ELSE /\ resp' = Respond("deletePatch", 200, "", <<>>)
                /\ patchesCollection' = RemoveAt(patchesCollection, i)

(***************************************************************************)
(* Requests of the model.                                                  *)
(***************************************************************************)
Usernames == {Str_ab, Str_bob, Str_amy}
Emails == {Str_noDot, Str_userEmail, Str_adminEmail}
Passwords == {Str_abc, Str_secret1}
\* Bodies <<username, email, password, confirm>> of register requests: every
\* combination of the strings above, and bodies with one field absent or
\* empty whose other fields fail later checks.
RegisterBodies ==
    (Usernames \X Emails \X Passwords \X Passwords)
    \cup { <<Undefined, Str_noDot, Str_abc, Str_secret1>>,
           <<Str_ab, <<>>, Str_abc, Str_secret1>>,
           <<Str_ab, Str_noDot, Undefined, Str_secret1>>,
           <<Str_ab, Str_noDot, Str_abc, <<>> >> }
LoginEmails == Emails \cup {<<>>}
LoginPasswords == Passwords \cup {Str_access, Undefined}
PostAuthors == {Undefined}
ReplyAuthors == {Undefined, Str_amy}
Contents == {<<>>, Str_hello}
Images == {Undefined}
IsAdminValues == {Undefined, JsFalse, JsTrue}
Versions == {Undefined, Str_v2}
Dates == {<<>>, Str_d}
Texts == {Undefined, Str_t}

(***************************************************************************)
(* connectDB: the collections of a fresh database, the seed patch inserted *)
(* because the patches collection is empty.                                *)
(***************************************************************************)
SeedPatch == [id |-> 1, version |-> Str_seedVersion, date |-> Str_seedDate,
              text |-> Str_seedText]

Init ==
    /\ usersCollection = <<>>
    /\ postsCollection = <<>>
    /\ patchesCollection = <<SeedPatch>>
    /\ pending = <<>>
    /\ clock = StartClock
    /\ resp = Respond("none", 0, "", <<>>)

(***************************************************************************)
(* The requests the service receives, within the bounds of the model.      *)
(***************************************************************************)
RECURSIVE ReplyCount(_)
ReplyCount(posts) ==
    IF Len(posts) = 0 THEN 0 ELSE Len(posts[1].replies) + ReplyCount(Tail(posts))

DocCount(users, outstanding, posts, patches) ==
    Len(users) + Len(outstanding) + Len(posts) + ReplyCount(posts) + Len(patches)

UsersBound == Len(usersCollection') + Len(pending') <= MaxUsers

\* Posts and replies stored, together.
PostsBound == Len(postsCollection') + ReplyCount(postsCollection') <= MaxPostDocs

PatchesBound == Len(patchesCollection') <= MaxPatches

\* Documents stored in the three collections, together.
AllBound ==
    DocCount(usersCollection', pending', postsCollection', patchesCollection') <= MaxAll

RegisterRequest ==
    \E body \in RegisterBodies : Register(body[1], body[2], body[3], body[4]) /\ UsersBound

RegisterInsertDone == \E i \in 1..Len(pending) : RegisterInsert(i)

LoginRequest == \E email \in LoginEmails, password \in LoginPasswords : Login(email, password)

CreatePostRequest ==
    \E t \in ClockReads, author \in PostAuthors, content \in Contents, image \in Images :
        CreatePost(t, author, content, image) /\ PostsBound

DeletePostRequest == \E id \in PostIds, isAdmin \in IsAdminValues : DeletePost(id, isAdmin)

AddReplyRequest ==
    \E t \in ClockReads, id \in PostIds, author \in ReplyAuthors, content \in Contents :
        AddReply(t, id, author, content) /\ PostsBound

DeleteReplyRequest ==
    \E postId \in PostIds, replyId \in PostIds, isAdmin \in IsAdminValues :
        DeleteReply(postId, replyId, isAdmin)

CreatePatchRequest ==
    \E t \in ClockReads, version \in Versions, date \in Dates, text \in Texts,
       isAdmin \in IsAdminValues :
        CreatePatch(t, version, date, text, isAdmin) /\ PatchesBound

UpdatePatchRequest ==
    \E id \in PatchIds, version \in Versions, date \in Dates, text \in Texts,
       isAdmin \in IsAdminValues :
        UpdatePatch(id, version, date, text, isAdmin)

DeletePatchRequest == \E id \in PatchIds, isAdmin \in IsAdminValues : DeletePatch(id, isAdmin)

\* Registration and login over the users collection.
NextAuth ==
    \/ RegisterRequest
    \/ RegisterInsertDone
    \/ LoginRequest

SpecAuth == Init /\ [][NextAuth]_vars

\* Posts and replies over the posts collection.
NextPosts ==
    \/ Tick
    \/ CreatePostRequest
    \/ DeletePostRequest
    \/ AddReplyRequest
    \/ DeleteReplyRequest

SpecPosts == Init /\ [][NextPosts]_vars

\* Patch notes over the patches collection.
NextPatches ==
    \/ Tick
    \/ CreatePatchRequest
    \/ UpdatePatchRequest
    \/ DeletePatchRequest

SpecPatches == Init /\ [][NextPatches]_vars

\* The whole service: every handler over the three collections.
Next ==
    \/ Tick
    \/ RegisterRequest /\ AllBound
    \/ RegisterInsertDone
    \/ LoginRequest
    \/ CreatePostRequest /\ AllBound
    \/ DeletePostRequest
    \/ AddReplyRequest /\ AllBound
    \/ DeleteReplyRequest
    \/ CreatePatchRequest /\ AllBound
    \/ UpdatePatchRequest
    \/ DeletePatchRequest

Spec == Init /\ [][Next]_vars

(***************************************************************************)
(* Properties of registration and login.                                   *)
(***************************************************************************)
SameEmailOrUsername(u, v) == u.email = v.email \/ u.username = v.username

\* C1: in every reachable state no two stored users share an email or share
\* a username, also when registrations of the same email or username
\* interleave between their findOne and their insertOne.
C1_UniqueUsers ==
    \A i, j \in 1..Len(usersCollection) :
        i # j => ~SameEmailOrUsername(usersCollection[i], usersCollection[j])

\* C2: whatever the users collection holds, a login with the admin email
\* and the password "access" is answered 200 with isAdmin = true, and a
\* login with the admin email and any other supplied password is answered
\* 401.
C2_AdminLogin ==
    [][\A password \in LoginPasswords :
          (Truthy(password) /\ Login(Str_adminEmail, password)) =>
              IF password = Str_access
              THEN resp'.status = 200 /\ resp'.body.isAdmin = TRUE
              ELSE resp'.status = 401]_vars

\* The six checks of registration in the order the specification lists
\* them, each with the message of its failure.
RegisterChecks(username, email, password, confirm) ==
    << Truthy(username) /\ Truthy(email) /\ Truthy(password) /\ Truthy(confirm),
       Len(username) >= 3,
       EmailOk(email),
       password = confirm,
       Len(password) >= 6,
       \A i \in 1..Len(usersCollection) :
           usersCollection[i].email # email /\ usersCollection[i].username # username >>

RegisterMessages ==
    << "Please fill in all fields",
       "Username must be at least 3 characters long",
       "Please enter a valid email address",
       "Passwords do not match",
       "Password must be at least 6 characters long",
       "This email or username is already registered" >>

FirstFailed(checks) ==
    IF \A k \in 1..Len(checks) : checks[k] THEN 0
    ELSE CHOOSE k \in 1..Len(checks) : ~checks[k] /\ \A m \in 1..(k - 1) : checks[m]

\* C3: a registration is answered with the 400 error of the first of the
\* six checks that fails, in the order (1) fields present, (2) username
\* length, (3) email format, (4) password equals confirm, (5) password
\* length, (6) no existing user; whenever a check fails the users
\* collection is unchanged and no insert is outstanding for the request.
C3_RegisterOrder ==
    [][\A body \in RegisterBodies :
          Register(body[1], body[2], body[3], body[4]) =>
              LET k == FirstFailed(RegisterChecks(body[1], body[2], body[3], body[4]))
              IN  IF k = 0
                  THEN Len(pending') = Len(pending) + 1
                  ELSE /\ resp'.op = "register" /\ resp'.status = 400
                       /\ resp'.error = RegisterMessages[k]
                       /\ usersCollection' = usersCollection
                       /\ pending' = pending]_vars

\* A registration was refused for its password confirmation while a user is
\* stored.
C3_Witness ==
    /\ Len(usersCollection) > 0
    /\ resp.op = "register" /\ resp.status = 400
    /\ resp.error = "Passwords do not match"

IsPrefix(a, b) == Len(a) <= Len(b) /\ SubSeq(b, 1, Len(a)) = a

\* C10: starting from an empty users collection every stored user has
\* isAdmin = false, stored users are never modified or removed, and a login
\* is answered with isAdmin = true only for the admin email with the
\* password "access".
C10_OnlyAdminIsAdmin ==
    [][/\ \A i \in 1..Len(usersCollection') : usersCollection'[i].isAdmin = FALSE
       /\ IsPrefix(usersCollection, usersCollection')
       /\ \A email \in LoginEmails, password \in LoginPasswords :
             (Login(email, password) /\ resp'.status = 200 /\ resp'.body.isAdmin = TRUE)
                 => (email = Str_adminEmail /\ password = Str_access)]_vars

\* A stored user has logged in and was answered as a non-administrator.
C10_Witness ==
    /\ Len(usersCollection) > 0
    /\ resp.op = "login" /\ resp.status = 200
    /\ resp.body.isAdmin = FALSE
    /\ resp.body.username = usersCollection[1].username

(***************************************************************************)
(* Properties of posts and replies.                                        *)
(***************************************************************************)
PostsWithId(posts, id) == {i \in 1..Len(posts) : posts[i].id = id}

\* posts2 is posts with the replies of the document at index i replaced by
\* replies and nothing else changed.
OnlyRepliesChanged(posts, posts2, i, replies) ==
    /\ Len(posts2) = Len(posts)
    /\ \A j \in (1..Len(posts)) \ {i} : posts2[j] = posts[j]
    /\ posts2[i].replies = replies
    /\ posts2[i].id = posts[i].id
    /\ posts2[i].author = posts[i].author
    /\ posts2[i].content = posts[i].content
    /\ posts2[i].image = posts[i].image
    /\ posts2[i].timestamp = posts[i].timestamp

\* C4: deleting a post with a falsy or absent isAdmin is answered 403 and
\* leaves the posts unchanged; deleting an existing post id with a truthy
\* isAdmin is answered 200 and removes it, so that no post has the id
\* afterwards; deleting an id no post has is answered 404, which is what a
\* subsequent delete of the same id gets.
C4_DeletePost ==
    [][resp'.op = "deletePost" =>
         \A id \in PostIds, isAdmin \in IsAdminValues :
            DeletePost(id, isAdmin) =>
               IF ~Truthy(isAdmin)
               THEN resp'.status = 403 /\ postsCollection' = postsCollection
               ELSE IF PostsWithId(postsCollection, parseInt(id)) = {}
               THEN resp'.status = 404 /\ postsCollection' = postsCollection
               ELSE /\ resp'.status = 200
                    /\ PostsWithId(postsCollection', parseInt(id)) = {}]_vars

\* C5: adding a reply with non-empty content to an id no post has is
\* answered 404 and changes no post; adding to an existing post is answered
\* 201, appends exactly the created reply at the end of that post's replies,
\* raising their count by one, and leaves every other post and every stored
\* reply unchanged.
C5_AddReply ==
    [][resp'.op = "addReply" =>
         \A t \in ClockReads, id \in PostIds, author \in ReplyAuthors, content \in Contents :
            (Truthy(content) /\ AddReply(t, id, author, content)) =>
               IF PostsWithId(postsCollection, parseInt(id)) = {}
               THEN resp'.status = 404 /\ postsCollection' = postsCollection
               ELSE /\ resp'.status = 201
                    /\ resp'.body.id = t /\ resp'.body.content = content
                    /\ \E i \in PostsWithId(postsCollection, parseInt(id)) :
                          /\ OnlyRepliesChanged(postsCollection, postsCollection', i,
                                                postsCollection[i].replies \o <<resp'.body>>)
                          /\ Len(postsCollection'[i].replies) =
                                 Len(postsCollection[i].replies) + 1]_vars

\* A second reply has been appended to a post.
C5_Witness ==
    /\ resp.op = "addReply" /\ resp.status = 201
    /\ \E i \in 1..Len(postsCollection) :
          /\ Len(postsCollection[i].replies) = 2
          /\ postsCollection[i].replies[2] = resp.body

\* C8: a delete reply with a truthy isAdmin is answered 404 exactly when no
\* post has the post id; otherwise it is answered 200 and the post's replies
\* become the replies whose id differs from the reply id, in their order, so
\* that an id no reply has leaves the replies unchanged.
C8_DeleteReply ==
    [][resp'.op = "deleteReply" =>
         \A postId \in PostIds, replyId \in PostIds, isAdmin \in IsAdminValues :
            (Truthy(isAdmin) /\ DeleteReply(postId, replyId, isAdmin)) =>
               /\ resp'.status = 404 <=> PostsWithId(postsCollection, parseInt(postId)) = {}
               /\ resp'.status = 404 => postsCollection' = postsCollection
               /\ resp'.status # 404 =>
                    /\ resp'.status = 200
                    /\ \E i \in PostsWithId(postsCollection, parseInt(postId)) :
                          /\ OnlyRepliesChanged(postsCollection, postsCollection', i,
                                SelectSeq(postsCollection[i].replies,
                                          LAMBDA r : r.id # parseInt(replyId)))
                          /\ (\A k \in 1..Len(postsCollection[i].replies) :
                                 postsCollection[i].replies[k].id # parseInt(replyId))
                                => postsCollection' = postsCollection]_vars

\* A delete reply was answered 200 and the post keeps a reply.
C8_Witness ==
    /\ resp.op = "deleteReply" /\ resp.status = 200
    /\ \E i \in 1..Len(postsCollection) : Len(postsCollection[i].replies) = 1

Distinct(ids) == \A i, j \in 1..Len(ids) : i # j => ids[i] # ids[j]

Ids(docs) == [i \in 1..Len(docs) |-> docs[i].id]

\* C9: no two posts share an id, no two patches (the seed included) share an
\* id, and no two replies of one post share an id, the clock not having to
\* advance between two requests.
C9_UniqueIds ==
    /\ Distinct(Ids(postsCollection))
    /\ Distinct(Ids(patchesCollection))
    /\ \A i \in 1..Len(postsCollection) : Distinct(Ids(postsCollection[i].replies))

(***************************************************************************)
(* Properties of patches.                                                  *)
(***************************************************************************)
\* C6: a patch update with a truthy isAdmin on an existing patch id
\* overwrites exactly the fields among version, date and text supplied with
\* a truthy value, leaves the other fields, the id and all other patches
\* unchanged and is answered 200 with the document after the update; it is
\* answered 404 and changes nothing when no patch has the id.
C6_UpdatePatch ==
    [][resp'.op = "updatePatch" =>
         \A id \in PatchIds, version \in Versions, date \in Dates, text \in Texts,
            isAdmin \in IsAdminValues :
            (Truthy(isAdmin) /\ UpdatePatch(id, version, date, text, isAdmin)) =>
               IF PostsWithId(patchesCollection, parseInt(id)) = {}
               THEN resp'.status = 404 /\ patchesCollection' = patchesCollection
               ELSE /\ resp'.status = 200
                    /\ Len(patchesCollection') = Len(patchesCollection)
                    /\ \E i \in PostsWithId(patchesCollection, parseInt(id)) :
                          LET old == patchesCollection[i]
                              new == patchesCollection'[i]
                          IN  /\ \A j \in (1..Len(patchesCollection)) \ {i} :
                                    patchesCollection'[j] = patchesCollection[j]
                              /\ new.id = old.id
                              /\ new.version = (IF Truthy(version) THEN version ELSE old.version)
                              /\ new.date = (IF Truthy(date) THEN date ELSE old.date)
                              /\ new.text = (IF Truthy(text) THEN text ELSE old.text)
                              /\ resp'.body = new]_vars

\* The seed patch has had its version alone overwritten, next to another
\* patch.
C6_Witness ==
    /\ resp.op = "updatePatch" /\ resp.status = 200
    /\ resp.body.id = 1 /\ resp.body.version = Str_v2
    /\ resp.body.date = Str_seedDate /\ resp.body.text = Str_seedText
    /\ Len(patchesCollection) = 2

(***************************************************************************)
(* Properties of the rejections.                                           *)
(***************************************************************************)
\* A step in which a handler answers: every step but the advance of the
\* clock and the registration whose insert is left outstanding.
Answers == clock' = clock /\ Len(pending') <= Len(pending)

\* C7: a request answered 400 or 403 leaves the users, posts and patches
\* collections as they were; a created post has non-empty content, so a post
\* with empty content is answered 400 with the posts unchanged; a create
\* patch with a falsy isAdmin is answered 403 also when fields are missing.
C7_RejectionsChangeNothing ==
    [][/\ (Answers /\ resp'.status \in {400, 403}) => store' = store
       /\ (Answers /\ resp'.op = "createPost") =>
             \/ resp'.status = 400 /\ postsCollection' = postsCollection
             \/ /\ resp'.status = 201 /\ Truthy(resp'.body.content)
                /\ postsCollection' = Append(postsCollection, resp'.body)
       /\ (Answers /\ resp'.op = "createPatch" /\ resp'.status # 403) =>
             \A version \in Versions, date \in Dates, text \in Texts,
                isAdmin \in IsAdminValues :
                ~Truthy(isAdmin) => ~CreatePatch(clock, version, date, text, isAdmin)]_vars

\* A create patch was answered 403 and left the seed patch alone.
C7_Witness ==
    /\ resp.op = "createPatch" /\ resp.status = 403
    /\ patchesCollection = <<SeedPatch>>

====
